---------------------------- MODULE Spec2Model ----------------------------
(***************************************************************************)
(* Inter-processor communication substrate of the ARTIQ firmware:          *)
(*   - libboard_artiq/rpc_fifo.rs   the fixed-slot FIFO                    *)
(*   - libboard_artiq/rpc_queue.rs  the chunked ring queue                 *)
(*   - libboard_artiq/mailbox.rs    the one-word mailbox                   *)
(*   - libproto_artiq/session_proto.rs  the framed session protocol        *)
(* Each component has its own specification (SpecFifo, SpecQueue,          *)
(* SpecMailbox, SpecSession); the variables of the other components stay   *)
(* at their initial values.                                                *)
(***************************************************************************)
EXTENDS Integers, Sequences, FiniteSets, TLC

VARIABLES
    \* ---- rpc_fifo.rs ----
    FIFO,          \* slot index -> slot bytes (a sequence of FIFO_BUFFER_SIZE bytes)
    FIFO_LENS,     \* slot index -> logical length
    FIFO_LOCK,     \* the spin-lock flag
    FIFO_READ,     \* read index
    FIFO_WRITE,    \* write index
    fifo_ret,      \* the last call: its name, argument, result, returned length, target
    fifo_unread,   \* history: the slots holding a pushed payload not yet pulled
    \* ---- rpc_queue.rs ----
    SEND_MAILBOX,      \* the send cursor (an address)
    RECV_MAILBOX,      \* the recv cursor (an address)
    queue_mem,         \* chunk address -> the QUEUE_CHUNK bytes at that address
    debug_assertions,  \* whether the build keeps debug_assert! (cfg(debug_assertions))
    queue_ret,         \* the last call: name, whether f ran, f's result, the slice given to f
    queue_probe,       \* history: one enqueued frame, followed until it is dequeued
    \* ---- mailbox.rs ----
    MAILBOX,           \* the shared mailbox word
    LAST,              \* side -> that side's static LAST
    mailbox_ret,       \* the last call: name, side, argument, returned value or flag
    mailbox_sender,    \* history: the side whose send wrote the word as it stands, "none" once cleared
    \* ---- session_proto.rs ----
    stream,            \* the bytes of the reader
    reader_pos,        \* how many of them have been read
    session_input,     \* how the stream was made: the garbage prefix and the request
    session_ret,       \* the last read_from call: where it started, what it returned
    \* ---- eh_artiq.rs, session_proto.rs (replies) ----
    target_endian,     \* the byte order of the target the firmware is built for
    sb,                \* a StringBuffer: [pos, buf]
    sb_history,        \* history: whether sb was built without from_host; the key it was built from
    exn_ret,           \* the last call: name, outcome, argument, sb before the call, reply written
    written,           \* the bytes the last call gave to its writer (none if it writes nothing)
    \* ---- rpc_queue.rs, one core enqueueing and one dequeueing ----
    prod,              \* the producer: where it is in full()/enqueue, what it has read
    cons,              \* the consumer: where it is in empty()/dequeue, what it has read
    conc_delivered,    \* history: the frames the decoder accepted, in order
    cons_dcache,       \* the consumer core's data cache: the bytes it holds; history: its last flush
    \* ---- rpc_fifo.rs, two contexts calling init, push and pull ----
    ctx                \* context -> where it is in its call, the call, the slot it computed

fifo_vars == <<FIFO, FIFO_LENS, FIFO_LOCK, FIFO_READ, FIFO_WRITE, fifo_ret, fifo_unread>>

queue_vars == <<SEND_MAILBOX, RECV_MAILBOX, queue_mem, debug_assertions, queue_ret, queue_probe>>

mailbox_vars == <<MAILBOX, LAST, mailbox_ret, mailbox_sender>>

session_vars == <<stream, reader_pos, session_input, session_ret>>

exn_vars == <<target_endian, sb, sb_history, exn_ret, written>>

conc_vars == <<prod, cons, conc_delivered, cons_dcache>>

vars == <<fifo_vars, queue_vars, mailbox_vars, session_vars, exn_vars, conc_vars, ctx>>

\* what the calls of one component leave alone
NotFifo == <<queue_vars, mailbox_vars, session_vars, exn_vars, conc_vars, ctx>>

NotQueue == <<fifo_vars, mailbox_vars, session_vars, exn_vars, conc_vars, ctx>>

NotMailbox == <<fifo_vars, queue_vars, session_vars, exn_vars, conc_vars, ctx>>

NotSession == <<fifo_vars, queue_vars, mailbox_vars, exn_vars, conc_vars, ctx>>

NotExn == <<fifo_vars, queue_vars, mailbox_vars, session_vars, conc_vars, ctx>>

\* what a step of the producer or the consumer of the ring queue leaves alone
NotConc ==
    <<fifo_vars, mailbox_vars, session_vars, exn_vars, debug_assertions, queue_ret,
      queue_probe, ctx>>

\* what a step of a context calling the FIFO leaves alone
NotCtx == <<queue_vars, mailbox_vars, session_vars, exn_vars, conc_vars, fifo_ret>>

(***************************************************************************)
(* Fixed-slot FIFO (rpc_fifo.rs).  The two sizes are scaled down from      *)
(* 4096 bytes and 128 slots.                                               *)
(***************************************************************************)
FIFO_BUFFER_SIZE == 1
FIFO_QUEUE_SIZE == 3

\* the nonzero byte values a payload is made of
DataBytes == {1, 2}

FifoSlots == 0 .. (FIFO_QUEUE_SIZE - 1)

Zeros(n) == [i \in 1 .. n |-> 0]

\* byte strings of length lo..hi over S
SeqsOf(S, lo, hi) == UNION {[1 .. n -> S] : n \in lo .. hi}

\* the payloads handed to push: shorter than, equal to and longer than a slot
PushData == SeqsOf(DataBytes, 0, FIFO_BUFFER_SIZE + 1)

\* the lengths of the target buffers handed to pull
PullTargetLens == (FIFO_BUFFER_SIZE - 1) .. (FIFO_BUFFER_SIZE + 1)

FifoRet(op, arg, result, len, target) ==
    [op |-> op, arg |-> arg, result |-> result, len |-> len, target |-> target]

\* a panic halts the core (the lock is left as it was)
fifo_panicked == fifo_ret.result = "panic"

fifo_next(index) == (index + 1) % FIFO_QUEUE_SIZE

fifo_empty ==
    /\ fifo_next(FIFO_READ) = FIFO_WRITE
    /\ FIFO_LENS[fifo_next(FIFO_READ)] = 0

fifo_full ==
    /\ fifo_next(FIFO_WRITE) = FIFO_READ
    /\ FIFO_LENS[fifo_next(FIFO_WRITE)] # 0

\* the statics and the memory after init() at startup
FifoInit ==
    /\ FIFO = [s \in FifoSlots |-> Zeros(FIFO_BUFFER_SIZE)]
    /\ FIFO_LENS = [s \in FifoSlots |-> 0]
    /\ FIFO_LOCK = FALSE
    /\ FIFO_READ = 0
    /\ FIFO_WRITE = 0
    /\ fifo_ret = FifoRet("none", <<>>, "none", 0, <<>>)
    /\ fifo_unread = {}

\* init(): waits for the lock, zeroes buffers and lengths; the indices are kept
fifo_init ==
    /\ ~fifo_panicked
    /\ ~FIFO_LOCK
    /\ FIFO' = [s \in FifoSlots |-> Zeros(FIFO_BUFFER_SIZE)]
    /\ FIFO_LENS' = [s \in FifoSlots |-> 0]
    /\ FIFO_LOCK' = FALSE
    /\ fifo_ret' = FifoRet("init", <<>>, "Ok", 0, <<>>)
    /\ fifo_unread' = {}
    /\ UNCHANGED <<FIFO_READ, FIFO_WRITE>>

fifo_push_overflow_longer(data) == Len(data) > FIFO_BUFFER_SIZE + 1

fifo_push_overflow(data) == Len(data) > FIFO_BUFFER_SIZE

fifo_pull_overflow(tlen) == tlen < FIFO_BUFFER_SIZE

\* slice::copy_from_slice panics unless both slices have the same length
copy_from_slice_ok(dstlen, srclen) == dstlen = srclen

fifo_push(data) ==
    /\ ~fifo_panicked
    /\ IF fifo_push_overflow(data)
       THEN /\ fifo_ret' = FifoRet("push", data, "DataOverflow", 0, <<>>)
            /\ UNCHANGED <<FIFO, FIFO_LENS, FIFO_LOCK, FIFO_READ, FIFO_WRITE, fifo_unread>>
       ELSE IF fifo_full
       THEN /\ fifo_ret' = FifoRet("push", data, "FifoFull", 0, <<>>)
            /\ UNCHANGED <<FIFO, FIFO_LENS, FIFO_LOCK, FIFO_READ, FIFO_WRITE, fifo_unread>>
       ELSE LET fifo_n == fifo_next(FIFO_WRITE) IN
            /\ ~FIFO_LOCK      \* while FIFO_LOCK.load() {}
            /\ FIFO_LENS' = [FIFO_LENS EXCEPT ![fifo_n] = Len(data)]
            /\ IF copy_from_slice_ok(FIFO_BUFFER_SIZE, Len(data))
               THEN /\ FIFO' = [FIFO EXCEPT ![fifo_n] = data]
                    /\ FIFO_WRITE' = fifo_n
                    /\ FIFO_LOCK' = FALSE
                    /\ fifo_ret' = FifoRet("push", data, "Ok", Len(data), <<>>)
                    /\ fifo_unread' = fifo_unread \cup {fifo_n}
               ELSE /\ FIFO_LOCK' = TRUE
                    /\ fifo_ret' = FifoRet("push", data, "panic", 0, <<>>)
                    /\ UNCHANGED <<FIFO, FIFO_WRITE, fifo_unread>>
            /\ UNCHANGED FIFO_READ

fifo_pull(tlen) ==
    /\ ~fifo_panicked
    /\ IF fifo_pull_overflow(tlen)
       THEN /\ fifo_ret' = FifoRet("pull", Zeros(tlen), "DataOverflow", 0, Zeros(tlen))
            /\ UNCHANGED <<FIFO, FIFO_LENS, FIFO_LOCK, FIFO_READ, FIFO_WRITE, fifo_unread>>
       ELSE IF fifo_empty
       THEN /\ fifo_ret' = FifoRet("pull", Zeros(tlen), "EmptyRead", 0, Zeros(tlen))
            /\ UNCHANGED <<FIFO, FIFO_LENS, FIFO_LOCK, FIFO_READ, FIFO_WRITE, fifo_unread>>
       ELSE LET fifo_n == fifo_next(FIFO_READ) IN
            /\ ~FIFO_LOCK      \* while FIFO_LOCK.load() {}
            /\ IF copy_from_slice_ok(tlen, FIFO_BUFFER_SIZE)
               THEN /\ FIFO' = [FIFO EXCEPT ![fifo_n] = Zeros(FIFO_BUFFER_SIZE)]
                    /\ FIFO_LENS' = [FIFO_LENS EXCEPT ![fifo_n] = 0]
                    /\ FIFO_READ' = fifo_n
                    /\ FIFO_LOCK' = FALSE
                    /\ fifo_ret' = FifoRet("pull", Zeros(tlen), "Ok", FIFO_LENS[fifo_n], FIFO[fifo_n])
                    /\ fifo_unread' = fifo_unread \ {fifo_n}
               ELSE /\ FIFO_LOCK' = TRUE
                    /\ fifo_ret' = FifoRet("pull", Zeros(tlen), "panic", 0, Zeros(tlen))
                    /\ UNCHANGED <<FIFO, FIFO_LENS, FIFO_READ, fifo_unread>>
            /\ UNCHANGED FIFO_WRITE

FifoPush == \E data \in PushData : fifo_push(data)

FifoPull == \E tlen \in PullTargetLens : fifo_pull(tlen)

(***************************************************************************)
(* Fixed-slot FIFO, concurrent use: two contexts call init, push and pull. *)
(* A step is one load or store of the lock flag, the part of a call before *)
(* the lock, or the section between the two stores of the lock.  A        *)
(* context that panics inside the section halts there: nothing unwinds,    *)
(* and the flag keeps the value it had.                                    *)
(***************************************************************************)
Contexts == {1, 2}

\* the context that pushes and the context that pulls, when each has one role
PRODUCER == 1
CONSUMER == 2

FifoOps == {"init", "push", "pull"}

\* the payloads that fill a slot
SlotData == {d \in PushData : Len(d) = FIFO_BUFFER_SIZE}

Context(pc, op, n, data) == [pc |-> pc, op |-> op, n |-> n, data |-> data]

CtxInit == ctx = [c \in Contexts |-> Context("idle", "init", 0, <<>>)]

\* the call up to its spin loop: push and pull check the length of their
\* argument, load the indices, compute fifo_n and return early when full()
\* or empty() holds.  For pull, data is the target; only its length matters.
ctx_enter(c, op, data) ==
    /\ ctx[c].pc = "idle"
    /\ ctx' = [ctx EXCEPT ![c] =
                 IF op = "push"
                 THEN IF fifo_push_overflow(data) \/ fifo_full
                      THEN Context("idle", op, 0, <<>>)
                      ELSE Context("spin", op, fifo_next(FIFO_WRITE), data)
                 ELSE IF op = "pull"
                 THEN IF fifo_pull_overflow(Len(data)) \/ fifo_empty
                      THEN Context("idle", op, 0, <<>>)
                      ELSE Context("spin", op, fifo_next(FIFO_READ), Zeros(Len(data)))
                 ELSE Context("spin", op, 0, <<>>)]
    /\ UNCHANGED <<FIFO, FIFO_LENS, FIFO_LOCK, FIFO_READ, FIFO_WRITE, fifo_unread>>

\* while FIFO_LOCK.load(Ordering::Relaxed) {}
ctx_load_lock(c) ==
    /\ ctx[c].pc = "spin"
    /\ ctx' = [ctx EXCEPT ![c].pc = IF FIFO_LOCK THEN "spin" ELSE "store"]
    /\ UNCHANGED <<FIFO, FIFO_LENS, FIFO_LOCK, FIFO_READ, FIFO_WRITE, fifo_unread>>

\* FIFO_LOCK.store(true, Ordering::Relaxed)
ctx_store_lock(c) ==
    /\ ctx[c].pc = "store"
    /\ FIFO_LOCK' = TRUE
    /\ ctx' = [ctx EXCEPT ![c].pc = "inside"]
    /\ UNCHANGED <<FIFO, FIFO_LENS, FIFO_READ, FIFO_WRITE, fifo_unread>>

\* whether the copy_from_slice of the section panics: the slot and the
\* payload, or the target and the slot, differ in length
ctx_section_panics(c) ==
    /\ ctx[c].op \in {"push", "pull"}
    /\ ~copy_from_slice_ok(FIFO_BUFFER_SIZE, Len(ctx[c].data))

\* the section that touches the buffers, the length table and the indices
ctx_section(c) ==
    LET n == ctx[c].n IN
    /\ ctx[c].pc = "inside"
    /\ ctx' = [ctx EXCEPT ![c].pc = IF ctx_section_panics(c) THEN "panicked" ELSE "unlock"]
    /\ IF ctx[c].op = "init"
       THEN /\ FIFO' = [s \in FifoSlots |-> Zeros(FIFO_BUFFER_SIZE)]
            /\ FIFO_LENS' = [s \in FifoSlots |-> 0]
            /\ fifo_unread' = {}
            /\ UNCHANGED <<FIFO_READ, FIFO_WRITE>>
       ELSE IF ctx_section_panics(c)
       THEN /\ FIFO_LENS' = [FIFO_LENS EXCEPT ![n] =
                               IF ctx[c].op = "push" THEN Len(ctx[c].data) ELSE @]
            /\ UNCHANGED <<FIFO, FIFO_READ, FIFO_WRITE, fifo_unread>>
       ELSE IF ctx[c].op = "push"
       THEN /\ FIFO_LENS' = [FIFO_LENS EXCEPT ![n] = Len(ctx[c].data)]
            /\ FIFO' = [FIFO EXCEPT ![n] = ctx[c].data]
            /\ FIFO_WRITE' = n
            /\ fifo_unread' = fifo_unread \cup {n}
            /\ UNCHANGED FIFO_READ
       ELSE /\ FIFO' = [FIFO EXCEPT ![n] = Zeros(FIFO_BUFFER_SIZE)]
            /\ FIFO_LENS' = [FIFO_LENS EXCEPT ![n] = 0]
            /\ FIFO_READ' = n
            /\ fifo_unread' = fifo_unread \ {n}
            /\ UNCHANGED FIFO_WRITE
    /\ UNCHANGED FIFO_LOCK

\* FIFO_LOCK.store(false, Ordering::Relaxed), and the return
ctx_unlock(c) ==
    /\ ctx[c].pc = "unlock"
    /\ FIFO_LOCK' = FALSE
    /\ ctx' = [ctx EXCEPT ![c].pc = "idle"]
    /\ UNCHANGED <<FIFO, FIFO_LENS, FIFO_READ, FIFO_WRITE, fifo_unread>>

\* one producer calling push with any payload
ProducerPush ==
    /\ UNCHANGED NotCtx
    /\ \E data \in PushData : ctx_enter(PRODUCER, "push", data)

\* one consumer calling pull with any target
ConsumerPull ==
    /\ UNCHANGED NotCtx
    /\ \E tlen \in PullTargetLens : ctx_enter(CONSUMER, "pull", Zeros(tlen))

\* a context goes on with the call it is in
ctx_run(c) ==
    /\ UNCHANGED NotCtx
    /\ ctx_load_lock(c) \/ ctx_store_lock(c) \/ ctx_section(c) \/ ctx_unlock(c)

CtxEnter ==
    /\ UNCHANGED NotCtx
    /\ \E c \in Contexts, op \in FifoOps, data \in SlotData : ctx_enter(c, op, data)

CtxLoadLock ==
    /\ UNCHANGED NotCtx
    /\ \E c \in Contexts : ctx_load_lock(c)

CtxStoreLock ==
    /\ UNCHANGED NotCtx
    /\ \E c \in Contexts : ctx_store_lock(c)

CtxSection ==
    /\ UNCHANGED NotCtx
    /\ \E c \in Contexts : ctx_section(c)

CtxUnlock ==
    /\ UNCHANGED NotCtx
    /\ \E c \in Contexts : ctx_unlock(c)

(***************************************************************************)
(* Ring queue (rpc_queue.rs).  The window is scaled down: the source has   *)
(* 0x1000-byte chunks and a window of 4095 whole chunks followed by a      *)
(* partial one (QUEUE_END = QUEUE_BEGIN + 4095 * 0x1000 + 0xf80).          *)
(***************************************************************************)
QUEUE_CHUNK == 2
QUEUE_WHOLE_CHUNKS == 2

QUEUE_BEGIN == 4 * QUEUE_CHUNK

\* the window ends inside the chunk that follows the whole ones
QUEUE_END == QUEUE_BEGIN + QUEUE_WHOLE_CHUNKS * QUEUE_CHUNK + (QUEUE_CHUNK + 1) \div 2

\* the addresses a cursor can take
QueueCursors ==
    {QUEUE_BEGIN + k * QUEUE_CHUNK : k \in 0 .. QUEUE_WHOLE_CHUNKS}

\* the byte values an encoder writes
QueueBytes == {0, 1}

\* what an encoder writes: 0 up to QUEUE_CHUNK bytes
QueuePayloads == SeqsOf(QueueBytes, 0, QUEUE_CHUNK)

\* no frame is being followed
NoProbe == [addr |-> 0, payload |-> <<>>, ahead |-> -1]

\* the frames between the recv and the send cursor
QueuePending(recv, send) ==
    ((send - recv) \div QUEUE_CHUNK + (QUEUE_WHOLE_CHUNKS + 1)) % (QUEUE_WHOLE_CHUNKS + 1)

\* the last call: which one, whether it returned or panicked, what f returned
\* ("Ok", "Err", or "notrun"), what the call returned, and the slice given to f
QueueRet(op, outcome, fres, res, addr, slice) ==
    [op |-> op, outcome |-> outcome, fres |-> fres, res |-> res,
     addr |-> addr, slice |-> slice]

\* a failed debug_assert! panics, which halts the core
queue_panicked == queue_ret.outcome = "panicked"

queue_next_no_wrap(addr) == addr + QUEUE_CHUNK

queue_next(addr) ==
    IF addr + QUEUE_CHUNK >= QUEUE_END THEN QUEUE_BEGIN ELSE addr + QUEUE_CHUNK

queue_empty == SEND_MAILBOX = RECV_MAILBOX

queue_full == queue_next(SEND_MAILBOX) = RECV_MAILBOX

\* the state after init(); the build is either one
QueueInit ==
    /\ SEND_MAILBOX = QUEUE_BEGIN
    /\ RECV_MAILBOX = QUEUE_BEGIN
    /\ queue_mem = [a \in QueueCursors |-> Zeros(QUEUE_CHUNK)]
    /\ debug_assertions \in BOOLEAN
    /\ queue_ret = QueueRet("none", "returned", "notrun", "none", 0, <<>>)
    /\ queue_probe = NoProbe

queue_init ==
    /\ ~queue_panicked
    /\ SEND_MAILBOX' = QUEUE_BEGIN
    /\ RECV_MAILBOX' = QUEUE_BEGIN
    /\ queue_ret' = QueueRet("init", "returned", "notrun", "none", 0, <<>>)
    /\ queue_probe' = NoProbe
    /\ UNCHANGED <<queue_mem, debug_assertions>>

\* debug_assert!(cond): panics when the build keeps debug assertions and cond fails
debug_assert_fails(cond) == debug_assertions /\ ~cond

\* f(slice).and_then(|x| { write_volatile(cursor, next(cursor)); Ok(x) }):
\* the cursor after it
queue_and_then_always(fres, cursor) == queue_next(cursor)

queue_and_then(fres, cursor) == IF fres = "Ok" THEN queue_next(cursor) ELSE cursor

\* the encoder overwrites the first bytes of the slice with its payload
encoder_write(slice, payload) ==
    payload \o SubSeq(slice, Len(payload) + 1, Len(slice))

\* enqueue(f), with f an encoder that writes payload and returns fres
queue_enqueue(payload, fres, follow) ==
    /\ ~queue_panicked
    /\ IF debug_assert_fails(~queue_full)
       THEN /\ queue_ret' = QueueRet("enqueue", "panicked", "notrun", "none", 0, <<>>)
            /\ UNCHANGED <<SEND_MAILBOX, RECV_MAILBOX, queue_mem, debug_assertions,
                           queue_probe>>
       ELSE LET addr == SEND_MAILBOX IN
            /\ queue_mem' = [queue_mem EXCEPT ![addr] = encoder_write(@, payload)]
            /\ SEND_MAILBOX' = queue_and_then(fres, SEND_MAILBOX)
            /\ queue_ret' = QueueRet("enqueue", "returned", fres, fres, addr, <<>>)
            /\ queue_probe' =
                   IF follow /\ fres = "Ok" /\ ~queue_full /\ queue_probe = NoProbe
                   THEN [addr |-> addr, payload |-> payload,
                         ahead |-> QueuePending(RECV_MAILBOX, SEND_MAILBOX)]
                   ELSE queue_probe
            /\ UNCHANGED <<RECV_MAILBOX, debug_assertions>>

\* dequeue(f), with f a decoder that reads the slice and returns fres
queue_dequeue(fres) ==
    /\ ~queue_panicked
    /\ IF debug_assert_fails(~queue_empty)
       THEN /\ queue_ret' = QueueRet("dequeue", "panicked", "notrun", "none", 0, <<>>)
            /\ UNCHANGED <<SEND_MAILBOX, RECV_MAILBOX, queue_mem, debug_assertions,
                           queue_probe>>
       ELSE LET addr == RECV_MAILBOX IN
            /\ RECV_MAILBOX' = queue_and_then(fres, RECV_MAILBOX)
            /\ queue_ret' = QueueRet("dequeue", "returned", fres, fres, addr, queue_mem[addr])
            /\ queue_probe' =
                   IF fres # "Ok" \/ queue_probe = NoProbe THEN queue_probe
                   ELSE IF queue_probe.ahead = 0 THEN NoProbe
                   ELSE [queue_probe EXCEPT !.ahead = @ - 1]
            /\ UNCHANGED <<SEND_MAILBOX, queue_mem, debug_assertions>>

\* what an encoder or a decoder returns
FResults == {"Ok", "Err"}

QueueEnqueue ==
    \E payload \in QueuePayloads, fres \in FResults, follow \in BOOLEAN :
        queue_enqueue(payload, fres, follow)

QueueDequeue == \E fres \in FResults : queue_dequeue(fres)

(***************************************************************************)
(* Ring queue, concurrent use: one core loops on full()/enqueue, the other *)
(* on empty()/dequeue.  A step is one read or write of a cursor, or of one *)
(* byte of a chunk by the closure.  The encoder of the k-th frame fills    *)
(* the chunk with the byte k; the decoder reads the whole chunk.           *)
(***************************************************************************)
\* the number of frames the producer sends
MaxFrames == 4

Frame(k) == [i \in 1 .. QUEUE_CHUNK |-> k]

\* full() and empty() on the cursor values a core has read
full_never(send, recv) == FALSE

full_of(send, recv) == queue_next(send) = recv

empty_of(send, recv) == send = recv

Producer(pc, send, addr, i, k) == [pc |-> pc, send |-> send, addr |-> addr, i |-> i, k |-> k]

Consumer(pc, send, addr, i, buf) ==
    [pc |-> pc, send |-> send, addr |-> addr, i |-> i, buf |-> buf]

\* the consumer core's data cache: for each byte of each chunk the cached
\* copy, <<v>>, or <<>> when the byte is not cached; flushed_at is how many
\* frames the producer had published when dequeue last flushed, -1 outside
\* a dequeue call and before its flush
DCache(lines, flushed_at) == [lines |-> lines, flushed_at |-> flushed_at]

\* a cache that holds no copy
NoLines == [a \in QueueCursors |-> [i \in 1 .. QUEUE_CHUNK |-> <<>>]]

\* cache::flush_cpu_dcache(): every cached copy is invalidated
flush_cpu_dcache(lines) == NoLines

\* a dequeue that leaves the cache as it is
dequeue_no_flush(lines) == lines

\* what dequeue does to the cache before it takes the chunk
dequeue_flush(lines) == flush_cpu_dcache(lines)

\* a load of the byte at addr + i - 1: the cached copy if there is one,
\* else the byte in memory
cached_read(lines, mem, addr, i) ==
    IF lines[addr][i] # <<>> THEN lines[addr][i][1] ELSE mem[addr][i]

\* the load leaves a copy of the byte in the cache
cache_fill(lines, addr, i, byte) == [lines EXCEPT ![addr][i] = <<byte>>]

ConcInit ==
    /\ prod = Producer("idle", QUEUE_BEGIN, QUEUE_BEGIN, 1, 1)
    /\ cons = Consumer("idle", QUEUE_BEGIN, QUEUE_BEGIN, 1, <<>>)
    /\ conc_delivered = <<>>
    /\ cons_dcache = DCache(NoLines, -1)

\* ---- the producer ----
\* full(): next(read_volatile(SEND_MAILBOX)) ..
ProdFullReadSend ==
    /\ prod.pc = "idle"
    /\ prod.k <= MaxFrames
    /\ prod' = [prod EXCEPT !.pc = "full_recv", !.send = SEND_MAILBOX]
    /\ UNCHANGED <<SEND_MAILBOX, RECV_MAILBOX, queue_mem, cons, conc_delivered, cons_dcache>>
    /\ UNCHANGED NotConc

\* .. == read_volatile(RECV_MAILBOX); enqueue is called when full() is false
ProdFullReadRecv ==
    /\ prod.pc = "full_recv"
    /\ prod' = [prod EXCEPT !.pc = IF full_of(prod.send, RECV_MAILBOX) THEN "idle"
                                   ELSE IF debug_assertions THEN "assert_send"
                                   ELSE "slice"]
    /\ UNCHANGED <<SEND_MAILBOX, RECV_MAILBOX, queue_mem, cons, conc_delivered, cons_dcache>>
    /\ UNCHANGED NotConc

\* debug_assert!(!full()): the two reads of full() again
ProdAssertReadSend ==
    /\ prod.pc = "assert_send"
    /\ prod' = [prod EXCEPT !.pc = "assert_recv", !.send = SEND_MAILBOX]
    /\ UNCHANGED <<SEND_MAILBOX, RECV_MAILBOX, queue_mem, cons, conc_delivered, cons_dcache>>
    /\ UNCHANGED NotConc

ProdAssertReadRecv ==
    /\ prod.pc = "assert_recv"
    /\ prod' = [prod EXCEPT !.pc = IF full_of(prod.send, RECV_MAILBOX) THEN "panicked"
                                   ELSE "slice"]
    /\ UNCHANGED <<SEND_MAILBOX, RECV_MAILBOX, queue_mem, cons, conc_delivered, cons_dcache>>
    /\ UNCHANGED NotConc

\* slice::from_raw_parts_mut(read_volatile(SEND_MAILBOX) as *mut u8, QUEUE_CHUNK)
ProdTakeSlice ==
    /\ prod.pc = "slice"
    /\ prod' = [prod EXCEPT !.pc = "write", !.addr = SEND_MAILBOX, !.i = 1]
    /\ UNCHANGED <<SEND_MAILBOX, RECV_MAILBOX, queue_mem, cons, conc_delivered, cons_dcache>>
    /\ UNCHANGED NotConc

\* f(slice): the encoder writes one byte of the chunk; after the last byte it
\* returns Ok or Err
ProdWriteByte ==
    /\ prod.pc = "write"
    /\ queue_mem' = [queue_mem EXCEPT ![prod.addr][prod.i] = prod.k]
    /\ IF prod.i < QUEUE_CHUNK
       THEN prod' = [prod EXCEPT !.i = @ + 1]
       ELSE \E fres \in FResults :
                prod' = [prod EXCEPT !.pc = IF fres = "Ok" THEN "next_read" ELSE "idle"]
    /\ UNCHANGED <<SEND_MAILBOX, RECV_MAILBOX, cons, conc_delivered, cons_dcache>>
    /\ UNCHANGED NotConc

\* and_then: .. next(read_volatile(SEND_MAILBOX)) ..
ProdNextReadSend ==
    /\ prod.pc = "next_read"
    /\ prod' = [prod EXCEPT !.pc = "next_write", !.send = SEND_MAILBOX]
    /\ UNCHANGED <<SEND_MAILBOX, RECV_MAILBOX, queue_mem, cons, conc_delivered, cons_dcache>>
    /\ UNCHANGED NotConc

\* write_volatile(SEND_MAILBOX, ..)
ProdWriteSend ==
    /\ prod.pc = "next_write"
    /\ SEND_MAILBOX' = queue_next(prod.send)
    /\ prod' = [prod EXCEPT !.pc = "idle", !.k = @ + 1]
    /\ UNCHANGED <<RECV_MAILBOX, queue_mem, cons, conc_delivered, cons_dcache>>
    /\ UNCHANGED NotConc

\* ---- the consumer ----
\* empty(): read_volatile(SEND_MAILBOX) ..
ConsEmptyReadSend ==
    /\ cons.pc = "idle"
    /\ Len(conc_delivered) < MaxFrames
    /\ cons' = [cons EXCEPT !.pc = "empty_recv", !.send = SEND_MAILBOX]
    /\ UNCHANGED <<SEND_MAILBOX, RECV_MAILBOX, queue_mem, prod, conc_delivered, cons_dcache>>
    /\ UNCHANGED NotConc

\* .. == read_volatile(RECV_MAILBOX); dequeue is called when empty() is false
ConsEmptyReadRecv ==
    /\ cons.pc = "empty_recv"
    /\ cons' = [cons EXCEPT !.pc = IF empty_of(cons.send, RECV_MAILBOX) THEN "idle"
                                   ELSE IF debug_assertions THEN "assert_send"
                                   ELSE "flush"]
    /\ UNCHANGED <<SEND_MAILBOX, RECV_MAILBOX, queue_mem, prod, conc_delivered, cons_dcache>>
    /\ UNCHANGED NotConc

\* debug_assert!(!empty())
ConsAssertReadSend ==
    /\ cons.pc = "assert_send"
    /\ cons' = [cons EXCEPT !.pc = "assert_recv", !.send = SEND_MAILBOX]
    /\ UNCHANGED <<SEND_MAILBOX, RECV_MAILBOX, queue_mem, prod, conc_delivered, cons_dcache>>
    /\ UNCHANGED NotConc

ConsAssertReadRecv ==
    /\ cons.pc = "assert_recv"
    /\ cons' = [cons EXCEPT !.pc = IF empty_of(cons.send, RECV_MAILBOX) THEN "panicked"
                                   ELSE "flush"]
    /\ UNCHANGED <<SEND_MAILBOX, RECV_MAILBOX, queue_mem, prod, conc_delivered, cons_dcache>>
    /\ UNCHANGED NotConc

\* cache::flush_cpu_dcache()
ConsFlush ==
    /\ cons.pc = "flush"
    /\ cons' = [cons EXCEPT !.pc = "slice"]
    /\ cons_dcache' = DCache(dequeue_flush(cons_dcache.lines), prod.k - 1)
    /\ UNCHANGED <<SEND_MAILBOX, RECV_MAILBOX, queue_mem, prod, conc_delivered>>
    /\ UNCHANGED NotConc

\* slice::from_raw_parts_mut(read_volatile(RECV_MAILBOX) as *mut u8, QUEUE_CHUNK)
ConsTakeSlice ==
    /\ cons.pc = "slice"
    /\ cons' = [cons EXCEPT !.pc = "read", !.addr = RECV_MAILBOX, !.i = 1, !.buf = <<>>]
    /\ UNCHANGED <<SEND_MAILBOX, RECV_MAILBOX, queue_mem, prod, conc_delivered, cons_dcache>>
    /\ UNCHANGED NotConc

\* f(slice): the decoder reads one byte of the chunk through the data cache;
\* after the last byte it returns Ok, having accepted the frame, or Err, and
\* with Err dequeue returns
ConsReadByte ==
    /\ cons.pc = "read"
    /\ LET byte == cached_read(cons_dcache.lines, queue_mem, cons.addr, cons.i)
           lines == cache_fill(cons_dcache.lines, cons.addr, cons.i, byte)
           buf == Append(cons.buf, byte) IN
       IF cons.i < QUEUE_CHUNK
       THEN /\ cons' = [cons EXCEPT !.i = @ + 1, !.buf = buf]
            /\ cons_dcache' = DCache(lines, cons_dcache.flushed_at)
            /\ UNCHANGED conc_delivered
       ELSE \E fres \in FResults :
                /\ cons' = [cons EXCEPT !.pc = IF fres = "Ok" THEN "next_read" ELSE "idle",
                                        !.buf = <<>>]
                /\ cons_dcache' = DCache(lines, IF fres = "Ok" THEN cons_dcache.flushed_at
                                                ELSE -1)
                /\ conc_delivered' = IF fres = "Ok" THEN Append(conc_delivered, buf)
                                     ELSE conc_delivered
    /\ UNCHANGED <<SEND_MAILBOX, RECV_MAILBOX, queue_mem, prod>>
    /\ UNCHANGED NotConc

\* and_then: .. next(read_volatile(RECV_MAILBOX)) ..
ConsNextReadRecv ==
    /\ cons.pc = "next_read"
    /\ cons' = [cons EXCEPT !.pc = "next_write", !.send = RECV_MAILBOX]
    /\ UNCHANGED <<SEND_MAILBOX, RECV_MAILBOX, queue_mem, prod, conc_delivered, cons_dcache>>
    /\ UNCHANGED NotConc

\* write_volatile(RECV_MAILBOX, ..)
ConsWriteRecv ==
    /\ cons.pc = "next_write"
    /\ RECV_MAILBOX' = queue_next(cons.send)
    /\ cons' = [cons EXCEPT !.pc = "idle"]
    /\ cons_dcache' = DCache(cons_dcache.lines, -1)
    /\ UNCHANGED <<SEND_MAILBOX, queue_mem, prod, conc_delivered>>
    /\ UNCHANGED NotConc

(***************************************************************************)
(* Mailbox (mailbox.rs).  Each of the two cores runs its own copy of the   *)
(* module, so each has its own LAST; the MAILBOX word is shared.           *)
(***************************************************************************)
MaxWord == 2

Sides == {"comms", "kernel"}

\* the values send is called with: never 0
SendWords == 1 .. MaxWord

MailboxRet(op, side, arg, value, flag) ==
    [op |-> op, side |-> side, arg |-> arg, value |-> value, flag |-> flag]

MailboxInit ==
    /\ MAILBOX = 0
    /\ LAST = [s \in Sides |-> 0]
    /\ mailbox_ret = MailboxRet("none", "none", 0, 0, FALSE)
    /\ mailbox_sender = "none"

mailbox_send(side, data) ==
    /\ LAST' = [LAST EXCEPT ![side] = data]
    /\ MAILBOX' = data
    /\ mailbox_ret' = MailboxRet("send", side, data, 0, FALSE)
    /\ mailbox_sender' = side

\* data == 0 || data != LAST
mailbox_acknowledged_cleared_only(data, last) == data = 0

mailbox_acknowledged_value(data, last) == data = 0 \/ data # last

mailbox_acknowledged(side) ==
    /\ mailbox_ret' = MailboxRet("acknowledged", side, 0, 0,
                                 mailbox_acknowledged_value(MAILBOX, LAST[side]))
    /\ UNCHANGED <<MAILBOX, LAST, mailbox_sender>>

\* if data == LAST { 0 } else { ...; data }
mailbox_receive_own_too(data, last) == data

mailbox_receive_value(data, last) == IF data = last THEN 0 ELSE data

\* whether receive flushes the data cache before it returns
mailbox_receive_flushes(data, last) == data # last /\ data # 0

mailbox_receive(side) ==
    /\ mailbox_ret' = MailboxRet("receive", side, 0,
                                 mailbox_receive_value(MAILBOX, LAST[side]),
                                 mailbox_receive_flushes(MAILBOX, LAST[side]))
    /\ UNCHANGED <<MAILBOX, LAST, mailbox_sender>>

mailbox_acknowledge(side) ==
    /\ MAILBOX' = 0
    /\ mailbox_ret' = MailboxRet("acknowledge", side, 0, 0, FALSE)
    /\ mailbox_sender' = "none"
    /\ UNCHANGED LAST

MailboxSend == \E side \in Sides, data \in SendWords : mailbox_send(side, data)

MailboxAcknowledged == \E side \in Sides : mailbox_acknowledged(side)

MailboxReceive == \E side \in Sides : mailbox_receive(side)

MailboxAcknowledge == \E side \in Sides : mailbox_acknowledge(side)

(***************************************************************************)
(* Session protocol (session_proto.rs): read_sync and Request::read_from   *)
(* over a reader that holds a finite byte stream.                          *)
(***************************************************************************)
SYNC_BYTE == 90

\* write_sync's marker: [0x5a; 4]
SyncMarker == <<SYNC_BYTE, SYNC_BYTE, SYNC_BYTE, SYNC_BYTE>>

\* the longest garbage prefix put before the marker
MaxGarbage == 5

\* the byte values of the garbage: the sync byte, a request tag and zero
GarbageBytes == {SYNC_BYTE, 3, 0}

\* a 32-bit value as the transport writes it
U32Bytes(n) == <<n \div 16777216, (n \div 65536) % 256, (n \div 256) % 256, n % 256>>

\* a length-prefixed byte blob
BlobBytes(b) == U32Bytes(Len(b)) \o b

Ints6(a, b, c, d, e, f) == <<a, b, c, d, e, f>>

Request(variant, ints, bytes) == [variant |-> variant, ints |-> ints, bytes |-> bytes]

NoRequest == Request("none", <<>>, <<>>)

\* one request of each variant, and a second LoadKernel whose blob holds sync bytes
Requests ==
    { Request("SystemInfo", <<>>, <<>>),
      Request("LoadKernel", <<>>, <<7>>),
      Request("LoadKernel", <<>>, <<SYNC_BYTE, SYNC_BYTE>>),
      Request("RunKernel", <<>>, <<>>),
      Request("RpcReply", <<>>, <<>>),
      Request("RpcException", Ints6(1, 2, 3, 4, 5, 6), <<>>),
      Request("UploadSubkernel", <<1, 2>>, <<9>>) }

RequestTag(variant) ==
    CASE variant = "SystemInfo" -> 3
      [] variant = "LoadKernel" -> 5
      [] variant = "RunKernel" -> 6
      [] variant = "RpcReply" -> 7
      [] variant = "RpcException" -> 8
      [] variant = "UploadSubkernel" -> 9

\* the bytes of a request on the wire, after the marker
EncodeRequest(r) ==
    <<RequestTag(r.variant)>> \o
    CASE r.variant \in {"SystemInfo", "RunKernel"} -> <<>>
      [] r.variant \in {"LoadKernel", "RpcReply"} -> BlobBytes(r.bytes)
      [] r.variant = "RpcException" ->
            U32Bytes(r.ints[1]) \o U32Bytes(r.ints[2]) \o U32Bytes(r.ints[3]) \o
            U32Bytes(r.ints[4]) \o U32Bytes(r.ints[5]) \o U32Bytes(r.ints[6])
      [] r.variant = "UploadSubkernel" ->
            U32Bytes(r.ints[1]) \o <<r.ints[2]>> \o BlobBytes(r.bytes)

\* ---- the reader (the transport's ProtoRead) ----
\* each read returns [ok, value, pos]: whether the bytes were there, the value
\* read and the position after it
Read(ok, value, pos) == [ok |-> ok, value |-> value, pos |-> pos]

read_u8(pos) ==
    IF pos < Len(stream) THEN Read(TRUE, stream[pos + 1], pos + 1)
    ELSE Read(FALSE, 0, Len(stream))

read_u32(pos) ==
    IF pos + 4 <= Len(stream)
    THEN Read(TRUE,
              ((stream[pos + 1] * 256 + stream[pos + 2]) * 256 + stream[pos + 3]) * 256
                  + stream[pos + 4],
              pos + 4)
    ELSE Read(FALSE, 0, Len(stream))

read_bytes(pos) ==
    LET n == read_u32(pos) IN
    IF ~n.ok THEN Read(FALSE, <<>>, Len(stream))
    ELSE IF n.pos + n.value <= Len(stream)
    THEN Read(TRUE, SubSeq(stream, n.pos + 1, n.pos + n.value), n.pos + n.value)
    ELSE Read(FALSE, <<>>, Len(stream))

\* ---- read_sync ----
\* sync == [0x5a; 4]
sync_found_first_three(sync) == \A k \in 0 .. 2 : sync[k] = SYNC_BYTE

sync_found(sync) == \A k \in 0 .. 3 : sync[k] = SYNC_BYTE

\* the loop of read_sync from iteration i on, with the sync array and the
\* reader position at that point
RECURSIVE read_sync_loop(_, _, _)
read_sync_loop(i, sync, pos) ==
    LET b == read_u8(pos) IN
    IF ~b.ok THEN Read(FALSE, 0, b.pos)
    ELSE LET sync2 == [sync EXCEPT ![i % 4] = b.value] IN
         IF sync_found(sync2) THEN Read(TRUE, 0, b.pos)
         ELSE read_sync_loop(i + 1, sync2, b.pos)

read_sync(pos) == read_sync_loop(0, [k \in 0 .. 3 |-> 0], pos)

\* ---- Request::read_from ----
SessionRet(kind, start, sync_end, tag, request) ==
    [kind |-> kind, start |-> start, sync_end |-> sync_end, tag |-> tag, request |-> request]

\* a sequence of n reads of 32-bit values from pos on
RECURSIVE read_u32s(_, _)
read_u32s(n, pos) ==
    IF n = 0 THEN Read(TRUE, <<>>, pos)
    ELSE LET v == read_u32(pos) IN
         IF ~v.ok THEN Read(FALSE, <<>>, v.pos)
         ELSE LET rest == read_u32s(n - 1, v.pos) IN
              Read(rest.ok, <<v.value>> \o rest.value, rest.pos)

\* the match on the tag byte: [ok, value (the request), pos]
read_request_body(tag, pos) ==
    CASE tag = 3 -> Read(TRUE, Request("SystemInfo", <<>>, <<>>), pos)
      [] tag = 5 -> LET b == read_bytes(pos) IN
                    Read(b.ok, Request("LoadKernel", <<>>, b.value), b.pos)
      [] tag = 6 -> Read(TRUE, Request("RunKernel", <<>>, <<>>), pos)
      [] tag = 7 -> LET b == read_bytes(pos) IN
                    Read(b.ok, Request("RpcReply", <<>>, b.value), b.pos)
      [] tag = 8 -> LET f == read_u32s(6, pos) IN
                    Read(f.ok, Request("RpcException", f.value, <<>>), f.pos)
      [] tag = 9 -> LET id == read_u32(pos)
                        dest == read_u8(id.pos)
                        kernel == read_bytes(dest.pos)
                    IN  IF ~id.ok THEN Read(FALSE, NoRequest, id.pos)
                        ELSE IF ~dest.ok THEN Read(FALSE, NoRequest, dest.pos)
                        ELSE Read(kernel.ok,
                                  Request("UploadSubkernel", <<id.value, dest.value>>,
                                          kernel.value),
                                  kernel.pos)

RequestTagsWithoutLast == {3, 5, 6, 7, 8}

RequestTags == {3, 5, 6, 7, 8, 9}

request_read_from ==
    LET start == reader_pos
        s == read_sync(start)
        t == read_u8(s.pos)
    IN  IF ~s.ok
        THEN /\ reader_pos' = s.pos
             /\ session_ret' = SessionRet("Io", start, s.pos, 0, NoRequest)
        ELSE IF ~t.ok
        THEN /\ reader_pos' = t.pos
             /\ session_ret' = SessionRet("Io", start, s.pos, 0, NoRequest)
        ELSE IF t.value \notin RequestTags
        THEN /\ reader_pos' = t.pos
             /\ session_ret' = SessionRet("UnknownPacket", start, s.pos, t.value, NoRequest)
        ELSE LET r == read_request_body(t.value, t.pos) IN
             /\ reader_pos' = r.pos
             /\ session_ret' =
                    IF r.ok THEN SessionRet("Ok", start, s.pos, t.value, r.value)
                    ELSE SessionRet("Io", start, s.pos, t.value, NoRequest)

\* the streams read: a garbage prefix, the marker, a request
SessionInputs ==
    {[garbage |-> g, request |-> r] : g \in SeqsOf(GarbageBytes, 0, MaxGarbage), r \in Requests}

SessionInit ==
    /\ session_input \in SessionInputs
    /\ stream = session_input.garbage \o SyncMarker \o EncodeRequest(session_input.request)
    /\ reader_pos = 0
    /\ session_ret = SessionRet("none", 0, 0, 0, NoRequest)

RequestReadFrom ==
    /\ request_read_from
    /\ UNCHANGED <<stream, session_input>>

(***************************************************************************)
(* StringBuffer (eh_artiq.rs) and the replies of the session protocol      *)
(* (session_proto.rs, Reply::write_to).  The writer is a growable byte     *)
(* vector, so a write never fails; each write call starts from an empty    *)
(* writer.                                                                 *)
(***************************************************************************)
\* buf: [u8; 128], scaled down
STRING_BUFFER_LEN == 4

\* usize::MAX, as the largest integer of the model
USIZE_MAX == 2147483647

\* a 32-bit value that need not fit the model's integers is kept as its four
\* base-256 digits, most significant first; the transport writes the digits in
\* that order
U32_MAX == <<255, 255, 255, 255>>

write_u32(digits) == digits

\* the longest string copied, in characters
MaxChars == 3

\* the longest array of a KernelException reply
MaxEntries == 2

Endians == {"little", "big"}

\* the characters of the strings, UTF-8 encoded: one of one byte, one of two
Chars == {<<65>>, <<195, 169>>}

RECURSIVE Flatten(_)
Flatten(ss) == IF ss = <<>> THEN <<>> ELSE Head(ss) \o Flatten(Tail(ss))

\* the &str arguments, as their bytes
Strings == {Flatten(cs) : cs \in SeqsOf(Chars, 0, MaxChars)}

HostKeys == {U32Bytes(0), U32Bytes(1), U32Bytes(16909060), U32_MAX}

Reverse(b) == [i \in 1 .. Len(b) |-> b[Len(b) + 1 - i]]

\* mem::transmute::<u32, [u8; 4]>: the bytes of the value in the target's order
transmute_u32_bytes(v, endian) ==
    IF endian = "big" THEN v ELSE Reverse(v)

transmute_bytes_u32_little(b, endian) == Reverse(b)

\* mem::transmute::<[u8; 4], u32>
transmute_bytes_u32(b, endian) ==
    IF endian = "big" THEN b ELSE Reverse(b)

Min(a, b) == IF a <= b THEN a ELSE b

saturating_sub(a, b) == IF a >= b THEN a - b ELSE 0

\* whether buf[start .. end] of an n-byte array is a valid range (it panics otherwise)
slice_range_ok(start, end, n) == start <= end /\ end <= n

StringBuffer(pos, buf) == [pos |-> pos, buf |-> buf]

stringbuffer_new == StringBuffer(0, Zeros(STRING_BUFFER_LEN))

copy_str_len(s, bytes) ==
    Min(Len(bytes), saturating_sub(STRING_BUFFER_LEN, s.pos))

copy_str_panics(s, bytes) ==
    ~slice_range_ok(s.pos, s.pos + copy_str_len(s, bytes), STRING_BUFFER_LEN)

\* the buffer after a copy_str that returns
copy_str(s, bytes) ==
    LET len == copy_str_len(s, bytes) IN
    StringBuffer(s.pos + len,
                 [i \in 1 .. STRING_BUFFER_LEN |->
                     IF s.pos < i /\ i <= s.pos + len THEN bytes[i - s.pos] ELSE s.buf[i]])

from_str(bytes) == copy_str(stringbuffer_new, bytes)

from_host(message_id) ==
    StringBuffer(USIZE_MAX,
                 [i \in 1 .. STRING_BUFFER_LEN |->
                     IF i <= 4 THEN transmute_u32_bytes(message_id, target_endian)[i] ELSE 0])

is_host(s) == s.pos >= STRING_BUFFER_LEN

as_bytes(s) == SubSeq(s.buf, 1, s.pos)

\* str::from_utf8(..).is_ok(), for bytes of one-byte and two-byte characters
RECURSIVE utf8_valid(_)
utf8_valid(b) ==
    IF b = <<>> THEN TRUE
    ELSE IF b[1] < 128 THEN utf8_valid(Tail(b))
    ELSE IF b[1] >= 194 /\ b[1] <= 223
    THEN Len(b) >= 2 /\ b[2] >= 128 /\ b[2] <= 191 /\ utf8_valid(Tail(Tail(b)))
    ELSE FALSE

\* "<host string>"
HostStringText == <<60, 104, 111, 115, 116, 32, 115, 116, 114, 105, 110, 103, 62>>

\* "<invalid UTF-8>"
InvalidUtf8Text == <<60, 105, 110, 118, 97, 108, 105, 100, 32, 85, 84, 70, 45, 56, 62>>

as_str(s) ==
    IF s.pos >= STRING_BUFFER_LEN THEN HostStringText
    ELSE IF utf8_valid(as_bytes(s)) THEN as_bytes(s)
    ELSE InvalidUtf8Text

\* the transport's write_string: a 32-bit length, then the bytes
write_string(bytes) == U32Bytes(Len(bytes)) \o bytes

write_exception_stringbuffer(s) ==
    IF is_host(s)
    THEN write_u32(U32_MAX) \o
         write_u32(transmute_bytes_u32(SubSeq(s.buf, 1, 4), target_endian))
    ELSE write_string(as_str(s))

\* a CSlice: a length and a pointer; bytes are what the pointer points to
CSlice(len, ptr, bytes) == [len |-> len, ptr |-> ptr, bytes |-> bytes]

HostSlice(key) == CSlice(USIZE_MAX, key, <<>>)

DeviceSlice(bytes) == CSlice(Len(bytes), U32Bytes(1024), bytes)

write_exception_string(c) ==
    IF c.len = USIZE_MAX
    THEN write_u32(U32_MAX) \o write_u32(c.ptr)
    ELSE write_string(c.bytes)

\* an entry of exceptions: &[Option<Exception>]
Exception(some, id, message, file, line, column, function) ==
    [some |-> some, id |-> id, message |-> message, file |-> file, line |-> line,
     column |-> column, function |-> function]

NoException ==
    Exception(FALSE, 0, stringbuffer_new, DeviceSlice(<<>>), 0, 0, DeviceSlice(<<>>))

\* the exceptions put in a reply: one with the buffer s as its message, one
\* with a host message, and None
ExceptionsWith(s) ==
    { Exception(TRUE, 7, s, HostSlice(U32Bytes(5)), 1, 2, DeviceSlice(<<65>>)),
      Exception(TRUE, 8, from_host(U32Bytes(9)), DeviceSlice(<<>>), 3, 4,
                HostSlice(U32Bytes(6))),
      NoException }

\* StackPointerBacktrace triples and (address, stack pointer) pairs
StackPointers == {<<16, 1, 2>>}

BacktraceEntries == {<<32, 16>>}

Reply(variant, text, flag, exceptions, stack_pointers, backtrace, async_errors) ==
    [variant |-> variant, text |-> text, flag |-> flag, exceptions |-> exceptions,
     stack_pointers |-> stack_pointers, backtrace |-> backtrace,
     async_errors |-> async_errors]

SimpleReply(variant, text, flag) == Reply(variant, text, flag, <<>>, <<>>, <<>>, 0)

NoReply == SimpleReply("none", <<>>, 0)

Replies(s) ==
    { SimpleReply("SystemInfo", <<65>>, 1),
      SimpleReply("LoadCompleted", <<>>, 0),
      SimpleReply("LoadFailed", <<65, 65>>, 0),
      SimpleReply("KernelFinished", <<>>, 1),
      SimpleReply("KernelStartupFailed", <<>>, 0),
      SimpleReply("RpcRequest", <<>>, 1),
      SimpleReply("ClockFailure", <<>>, 0) }
    \cup
    { Reply("KernelException", <<>>, 0, e, sp, bt, n) :
        e \in SeqsOf(ExceptionsWith(s), 0, MaxEntries),
        sp \in SeqsOf(StackPointers, 0, MaxEntries),
        bt \in SeqsOf(BacktraceEntries, 0, MaxEntries),
        n \in {0, 3} }

\* what a write gives the writer: [ok, bytes]; ok is false when it panicked
Wrote(ok, bytes) == [ok |-> ok, bytes |-> bytes]

write_exception(e) ==
    U32Bytes(e.id) \o write_exception_stringbuffer(e.message) \o
    write_exception_string(e.file) \o U32Bytes(e.line) \o U32Bytes(e.column) \o
    write_exception_string(e.function)

\* for exception in exceptions.iter() { let exception = exception.as_ref().unwrap(); .. }
RECURSIVE write_exceptions(_)
write_exceptions(es) ==
    IF es = <<>> THEN Wrote(TRUE, <<>>)
    ELSE IF ~Head(es).some THEN Wrote(FALSE, <<>>)
    ELSE LET rest == write_exceptions(Tail(es)) IN
         Wrote(rest.ok, write_exception(Head(es)) \o rest.bytes)

\* each entry's fields as 32-bit values, one entry after another
RECURSIVE write_u32_entries(_)
write_u32_entries(es) ==
    IF es = <<>> THEN <<>>
    ELSE Flatten([i \in 1 .. Len(Head(es)) |-> U32Bytes(Head(es)[i])])
         \o write_u32_entries(Tail(es))

\* for sp in stack_pointers.iter() { .. }
write_stack_pointers(sps) == write_u32_entries(sps)

write_backtrace(bt) == U32Bytes(Len(bt)) \o write_u32_entries(bt)

reply_write_to(r) ==
    LET v == r.variant IN
    IF v = "KernelException"
    THEN LET es == write_exceptions(r.exceptions) IN
         IF ~es.ok
         THEN Wrote(FALSE, SyncMarker \o <<9>> \o U32Bytes(Len(r.exceptions)) \o es.bytes)
         ELSE Wrote(TRUE, SyncMarker \o <<9>> \o U32Bytes(Len(r.exceptions)) \o es.bytes \o
                          write_stack_pointers(r.stack_pointers) \o
                          write_backtrace(r.backtrace) \o <<r.async_errors>>)
    ELSE Wrote(TRUE,
               SyncMarker \o
               CASE v = "SystemInfo" -> <<2>> \o <<65, 82, 79, 82>> \o write_string(r.text)
                                        \o <<r.flag>>
                 [] v = "LoadCompleted" -> <<5>>
                 [] v = "LoadFailed" -> <<6>> \o write_string(r.text)
                 [] v = "KernelFinished" -> <<7, r.flag>>
                 [] v = "KernelStartupFailed" -> <<8>>
                 [] v = "RpcRequest" -> <<10, r.flag>>
                 [] v = "ClockFailure" -> <<15>>)

\* ---- the calls ----
ExnRet(op, outcome, arg, before, reply) ==
    [op |-> op, outcome |-> outcome, arg |-> arg, before |-> before, reply |-> reply]

SbHistory(device, key) == [device |-> device, key |-> key]

exn_panicked == exn_ret.outcome = "panicked"

ExnInit ==
    /\ target_endian \in Endians
    /\ sb = stringbuffer_new
    /\ sb_history = SbHistory(TRUE, <<>>)
    /\ exn_ret = ExnRet("new", "returned", <<>>, stringbuffer_new, NoReply)
    /\ written = <<>>

\* the message buffers of the replies: on-device text, text that fills the
\* buffer, a host key
ReplyMessages ==
    { [b |-> from_str(<<65>>), h |-> SbHistory(TRUE, <<>>)],
      [b |-> from_str(<<65, 65, 65, 195, 169>>), h |-> SbHistory(TRUE, <<>>)],
      [b |-> from_host(U32Bytes(1)), h |-> SbHistory(FALSE, U32Bytes(1))] }

ReplyInit ==
    /\ target_endian \in Endians
    /\ \E m \in ReplyMessages : sb = m.b /\ sb_history = m.h
    /\ exn_ret = ExnRet("new", "returned", <<>>, stringbuffer_new, NoReply)
    /\ written = <<>>

StringBufferNew ==
    /\ ~exn_panicked
    /\ sb' = stringbuffer_new
    /\ sb_history' = SbHistory(TRUE, <<>>)
    /\ exn_ret' = ExnRet("new", "returned", <<>>, sb, NoReply)
    /\ written' = <<>>
    /\ UNCHANGED target_endian
    /\ UNCHANGED NotExn

StringBufferFromStr ==
    /\ UNCHANGED NotExn
    /\ \E s \in Strings :
            /\ ~exn_panicked
            /\ sb' = from_str(s)
            /\ sb_history' = SbHistory(TRUE, <<>>)
            /\ exn_ret' = ExnRet("from_str", "returned", s, stringbuffer_new, NoReply)
            /\ written' = <<>>
            /\ UNCHANGED target_endian

StringBufferFromHost ==
    /\ UNCHANGED NotExn
    /\ \E key \in HostKeys :
            /\ ~exn_panicked
            /\ sb' = from_host(key)
            /\ sb_history' = SbHistory(FALSE, key)
            /\ exn_ret' = ExnRet("from_host", "returned", <<>>, sb, NoReply)
            /\ written' = <<>>
            /\ UNCHANGED target_endian

StringBufferCopyStr ==
    /\ UNCHANGED NotExn
    /\ \E s \in Strings :
            /\ ~exn_panicked
            /\ IF copy_str_panics(sb, s)
               THEN /\ exn_ret' = ExnRet("copy_str", "panicked", s, sb, NoReply)
                    /\ UNCHANGED <<sb, sb_history>>
               ELSE /\ sb' = copy_str(sb, s)
                    /\ sb_history' = SbHistory(sb_history.device, <<>>)
                    /\ exn_ret' = ExnRet("copy_str", "returned", s, sb, NoReply)
            /\ written' = <<>>
            /\ UNCHANGED target_endian

StringBufferClear ==
    /\ ~exn_panicked
    /\ sb' = stringbuffer_new
    /\ sb_history' = SbHistory(sb_history.device, <<>>)
    /\ exn_ret' = ExnRet("clear", "returned", <<>>, sb, NoReply)
    /\ written' = <<>>
    /\ UNCHANGED target_endian
    /\ UNCHANGED NotExn

WriteExceptionStringbuffer ==
    /\ ~exn_panicked
    /\ written' = write_exception_stringbuffer(sb)
    /\ exn_ret' = ExnRet("write_exception_stringbuffer", "returned", <<>>, sb, NoReply)
    /\ UNCHANGED <<target_endian, sb, sb_history>>
    /\ UNCHANGED NotExn

ReplyWriteTo ==
    /\ UNCHANGED NotExn
    /\ \E r \in Replies(sb) :
            LET w == reply_write_to(r) IN
            /\ ~exn_panicked
            /\ written' = w.bytes
            /\ exn_ret' = ExnRet("write_to", IF w.ok THEN "returned" ELSE "panicked",
                                 <<>>, sb, r)
            /\ UNCHANGED <<target_endian, sb, sb_history>>

(***************************************************************************)
(* The specifications: one per component, the others idle.                 *)
(***************************************************************************)
FifoIdle == FifoInit

QueueIdle ==
    /\ SEND_MAILBOX = QUEUE_BEGIN
    /\ RECV_MAILBOX = QUEUE_BEGIN
    /\ queue_mem = [a \in QueueCursors |-> Zeros(QUEUE_CHUNK)]
    /\ debug_assertions = TRUE
    /\ queue_ret = QueueRet("none", "returned", "notrun", "none", 0, <<>>)
    /\ queue_probe = NoProbe

MailboxIdle == MailboxInit

SessionIdle ==
    /\ session_input = [garbage |-> <<>>, request |-> NoRequest]
    /\ stream = <<>>
    /\ reader_pos = 0
    /\ session_ret = SessionRet("none", 0, 0, 0, NoRequest)

ConcIdle == ConcInit

CtxIdle == CtxInit

ExnIdle ==
    /\ target_endian = "little"
    /\ sb = stringbuffer_new
    /\ sb_history = SbHistory(TRUE, <<>>)
    /\ exn_ret = ExnRet("new", "returned", <<>>, stringbuffer_new, NoReply)
    /\ written = <<>>

InitFifo == FifoInit /\ QueueIdle /\ MailboxIdle /\ SessionIdle /\ ExnIdle /\ ConcIdle /\ CtxIdle

FifoInitCall == fifo_init /\ UNCHANGED NotFifo

FifoPushCall == FifoPush /\ UNCHANGED NotFifo

FifoPullCall == FifoPull /\ UNCHANGED NotFifo

NextFifo ==
    \/ FifoInitCall
    \/ FifoPushCall
    \/ FifoPullCall

SpecFifo == InitFifo /\ [][NextFifo]_vars

InitQueue == QueueInit /\ FifoIdle /\ MailboxIdle /\ SessionIdle /\ ExnIdle /\ ConcIdle /\ CtxIdle

QueueInitCall == queue_init /\ UNCHANGED NotQueue

QueueEnqueueCall == QueueEnqueue /\ UNCHANGED NotQueue

QueueDequeueCall == QueueDequeue /\ UNCHANGED NotQueue

NextQueue ==
    \/ QueueInitCall
    \/ QueueEnqueueCall
    \/ QueueDequeueCall

SpecQueue == InitQueue /\ [][NextQueue]_vars

InitMailbox == MailboxInit /\ FifoIdle /\ QueueIdle /\ SessionIdle /\ ExnIdle /\ ConcIdle /\ CtxIdle

MailboxSendCall == MailboxSend /\ UNCHANGED NotMailbox

MailboxAcknowledgedCall ==
    MailboxAcknowledged /\ UNCHANGED NotMailbox

MailboxReceiveCall == MailboxReceive /\ UNCHANGED NotMailbox

MailboxAcknowledgeCall ==
    MailboxAcknowledge /\ UNCHANGED NotMailbox

NextMailbox ==
    \/ MailboxSendCall
    \/ MailboxAcknowledgedCall
    \/ MailboxReceiveCall
    \/ MailboxAcknowledgeCall

SpecMailbox == InitMailbox /\ [][NextMailbox]_vars

InitSession == SessionInit /\ FifoIdle /\ QueueIdle /\ MailboxIdle /\ ExnIdle /\ ConcIdle /\ CtxIdle

RequestReadFromCall == RequestReadFrom /\ UNCHANGED NotSession

NextSession == RequestReadFromCall

SpecSession == InitSession /\ [][NextSession]_vars

InitExn == ExnInit /\ FifoIdle /\ QueueIdle /\ MailboxIdle /\ SessionIdle /\ ConcIdle /\ CtxIdle

NextExn ==
    \/ StringBufferNew
    \/ StringBufferFromStr
    \/ StringBufferFromHost
    \/ StringBufferCopyStr
    \/ StringBufferClear
    \/ WriteExceptionStringbuffer

SpecExn == InitExn /\ [][NextExn]_vars

\* the replies, written with a message buffer that was built before
InitReply == ReplyInit /\ FifoIdle /\ QueueIdle /\ MailboxIdle /\ SessionIdle /\ ConcIdle /\ CtxIdle

NextReply == ReplyWriteTo

SpecReply == InitReply /\ [][NextReply]_vars

\* the ring queue used by two cores
InitConc ==
    QueueInit /\ ConcInit /\ FifoIdle /\ MailboxIdle /\ SessionIdle /\ ExnIdle /\ CtxIdle

NextConc ==
    \/ ProdFullReadSend
    \/ ProdFullReadRecv
    \/ ProdAssertReadSend
    \/ ProdAssertReadRecv
    \/ ProdTakeSlice
    \/ ProdWriteByte
    \/ ProdNextReadSend
    \/ ProdWriteSend
    \/ ConsEmptyReadSend
    \/ ConsEmptyReadRecv
    \/ ConsAssertReadSend
    \/ ConsAssertReadRecv
    \/ ConsFlush
    \/ ConsTakeSlice
    \/ ConsReadByte
    \/ ConsNextReadRecv
    \/ ConsWriteRecv

SpecConc == InitConc /\ [][NextConc]_vars

\* the FIFO used by two contexts
InitCtx ==
    FifoInit /\ CtxInit /\ QueueIdle /\ MailboxIdle /\ SessionIdle /\ ExnIdle /\ ConcIdle

NextCtx ==
    \/ CtxEnter
    \/ CtxLoadLock
    \/ CtxStoreLock
    \/ CtxSection
    \/ CtxUnlock

SpecCtx == InitCtx /\ [][NextCtx]_vars

\* one producer and one consumer, each scheduled fairly while it is in a call
NextProgress ==
    \/ ProducerPush
    \/ ConsumerPull
    \/ CtxLoadLock
    \/ CtxStoreLock
    \/ CtxSection
    \/ CtxUnlock

FairProgress == \A c \in Contexts : WF_vars(ctx_run(c))

SpecProgress == InitCtx /\ [][NextProgress]_vars /\ FairProgress

(***************************************************************************)
(* Claims about the fixed-slot FIFO, checked under SpecFifo.               *)
(***************************************************************************)

\* a call of push or pull has just returned (or panicked) with this record
FifoCalled(op) == fifo_ret'.op = op

\* C1: whenever no pushed payload is pending, pull with a target of slot size
\* returns EmptyRead and changes neither index, no slot and no length entry.
C1_EmptyPullIsEmptyRead ==
    [][(/\ fifo_unread = {}
        /\ FifoCalled("pull")
        /\ Len(fifo_ret'.arg) = FIFO_BUFFER_SIZE)
       => (/\ fifo_ret'.result = "EmptyRead"
           /\ UNCHANGED <<FIFO_READ, FIFO_WRITE, FIFO, FIFO_LENS>>)]_vars

\* C2: push never writes into a slot that holds a payload not yet pulled; once
\* N-1 of the N slots hold unread payloads, push (of a payload of slot size)
\* returns FifoFull and leaves slots, lengths and indices unchanged.
C2_PushNeverOverwritesUnread ==
    [][(FifoCalled("push") /\ Len(fifo_ret'.arg) = FIFO_BUFFER_SIZE)
       => (/\ fifo_ret'.result = "Ok" => fifo_next(FIFO_WRITE) \notin fifo_unread
           /\ Cardinality(fifo_unread) >= FIFO_QUEUE_SIZE - 1
                 => (/\ fifo_ret'.result = "FifoFull"
                     /\ UNCHANGED <<FIFO_READ, FIFO_WRITE, FIFO, FIFO_LENS>>))]_vars

\* data followed by zero bytes up to the slot size
ZeroPadded(data) == data \o Zeros(FIFO_BUFFER_SIZE - Len(data))

\* C3: for every payload of length 0 up to the slot size, push on a non-full
\* FIFO succeeds and returns the payload's length, and the pull that follows it
\* (target of at least slot size, nothing else pending) succeeds, fills the
\* target with the payload zero-padded to slot size and returns its length.
C3_PushThenPullRoundTrip ==
    [][/\ (/\ FifoCalled("push")
           /\ Len(fifo_ret'.arg) <= FIFO_BUFFER_SIZE
           /\ ~fifo_full)
          => (fifo_ret'.result = "Ok" /\ fifo_ret'.len = Len(fifo_ret'.arg))
       /\ (/\ FifoCalled("pull")
           /\ Len(fifo_ret'.arg) >= FIFO_BUFFER_SIZE
           /\ fifo_ret.op = "push" /\ fifo_ret.result = "Ok"
           /\ fifo_unread = {fifo_next(FIFO_READ)})
          => (/\ fifo_ret'.result = "Ok"
              /\ fifo_ret'.len = Len(fifo_ret.arg)
              /\ SubSeq(fifo_ret'.target, 1, FIFO_BUFFER_SIZE) = ZeroPadded(fifo_ret.arg))]_vars

\* C9: push of a payload longer than a slot and pull into a target shorter than
\* a slot return DataOverflow in every FIFO state, and modify no slot, no length
\* entry, no index and not the lock flag.
C9_CapacityErrors ==
    [][/\ (FifoCalled("push") /\ Len(fifo_ret'.arg) > FIFO_BUFFER_SIZE)
          => (/\ fifo_ret'.result = "DataOverflow"
              /\ UNCHANGED <<FIFO, FIFO_LENS, FIFO_READ, FIFO_WRITE, FIFO_LOCK>>)
       /\ (FifoCalled("pull") /\ Len(fifo_ret'.arg) < FIFO_BUFFER_SIZE)
          => (/\ fifo_ret'.result = "DataOverflow"
              /\ UNCHANGED <<FIFO, FIFO_LENS, FIFO_READ, FIFO_WRITE, FIFO_LOCK>>)]_vars

\* an over-long push was rejected while full() held
C9_Witness ==
    /\ fifo_ret.op = "push"
    /\ Len(fifo_ret.arg) > FIFO_BUFFER_SIZE
    /\ fifo_ret.result = "DataOverflow"
    /\ fifo_full

\* C16: in every state reachable from init() by push and pull calls, a
\* slot's length is nonzero if and only if the slot holds a pushed payload
\* that has not been pulled.
C16_LengthNonzeroIffUnread ==
    \A s \in FifoSlots : FIFO_LENS[s] # 0 <=> s \in fifo_unread

\* a context is between its store of true to the lock and its store of false
InSection(c) == ctx[c].pc \in {"inside", "unlock"}

\* C20: two contexts that call init, push or pull concurrently are never
\* both between their store of true to the lock flag and their store of
\* false.
C20_LockMutualExclusion ==
    \A c, d \in Contexts : (InSection(c) /\ InSection(d)) => c = d

\* the context is inside a call of init, push or pull
InProgress(c) == ctx[c].pc # "idle"

\* C22: with one producer calling push and one consumer calling pull, both
\* scheduled fairly, every call eventually returns, and the lock flag is
\* false whenever no call is in progress.
C22_FifoProgress ==
    /\ \A c \in Contexts : InProgress(c) ~> ~InProgress(c)
    /\ [](~(\E c \in Contexts : InProgress(c)) => ~FIFO_LOCK)

(***************************************************************************)
(* Claims about the ring queue, checked under SpecQueue.                   *)
(***************************************************************************)

\* the number of chunks (cursor positions) of the window
QueueChunks == Cardinality(QueueCursors)

\* the cursors after C-1 successful enqueues and no dequeue since init()
AfterFillingEnqueues ==
    /\ RECV_MAILBOX = QUEUE_BEGIN
    /\ SEND_MAILBOX = QUEUE_BEGIN + (QueueChunks - 1) * QUEUE_CHUNK

\* C4: with C chunks in the window, after C-1 successful enqueues and no dequeue
\* full() is true, and a further enqueue is refused: its encoder is not run, no
\* chunk is written and the send and recv cursors keep their values.
C4_FullQueueRefusesEnqueue ==
    /\ [](AfterFillingEnqueues => queue_full)
    /\ [][(AfterFillingEnqueues /\ queue_ret'.op = "enqueue")
          => (/\ queue_ret'.fres = "notrun"
              /\ UNCHANGED <<queue_mem, SEND_MAILBOX, RECV_MAILBOX>>
              /\ ~queue_empty')]_vars

\* one chunk further, wrapping to the start of the window
OneChunkOn(addr) ==
    IF addr = QUEUE_BEGIN + (QueueChunks - 1) * QUEUE_CHUNK
    THEN QUEUE_BEGIN
    ELSE addr + QUEUE_CHUNK

\* C7: enqueue(f) advances send by exactly one chunk (with wrap) when f returns
\* Ok and leaves it when f returns Err, and never changes recv; dequeue(f) does
\* the same to recv and never changes send; both return f's result unchanged.
C7_CursorEffects ==
    [][/\ (queue_ret'.op = "enqueue" /\ queue_ret'.outcome = "returned")
          => (/\ RECV_MAILBOX' = RECV_MAILBOX
              /\ queue_ret'.fres = "Ok" => SEND_MAILBOX' = OneChunkOn(SEND_MAILBOX)
              /\ queue_ret'.fres = "Err" => SEND_MAILBOX' = SEND_MAILBOX
              /\ queue_ret'.res = queue_ret'.fres)
       /\ (queue_ret'.op = "dequeue" /\ queue_ret'.outcome = "returned")
          => (/\ SEND_MAILBOX' = SEND_MAILBOX
              /\ queue_ret'.fres = "Ok" => RECV_MAILBOX' = OneChunkOn(RECV_MAILBOX)
              /\ queue_ret'.fres = "Err" => RECV_MAILBOX' = RECV_MAILBOX
              /\ queue_ret'.res = queue_ret'.fres)]_vars

\* an enqueue whose encoder succeeded has just wrapped the send cursor
C7_Witness ==
    /\ queue_ret.op = "enqueue"
    /\ queue_ret.fres = "Ok"
    /\ queue_ret.addr = QUEUE_BEGIN + (QueueChunks - 1) * QUEUE_CHUNK
    /\ SEND_MAILBOX = QUEUE_BEGIN
    /\ RECV_MAILBOX # QUEUE_BEGIN

\* C8: a frame enqueued in a non-full state is, once the frames ahead of it are
\* dequeued, given to the decoder with exactly the bytes its encoder wrote, at
\* the chunk address it was written to.
C8_RoundTrip ==
    [][(/\ queue_ret'.op = "dequeue"
        /\ queue_ret'.outcome = "returned"
        /\ queue_probe.ahead = 0)
       => (/\ queue_ret'.addr = queue_probe.addr
           /\ SubSeq(queue_ret'.slice, 1, Len(queue_probe.payload)) = queue_probe.payload)]_vars

\* a cursor is a multiple of the chunk size and lies in the window
CursorInWindow(addr) ==
    /\ addr % QUEUE_CHUNK = 0
    /\ QUEUE_BEGIN <= addr
    /\ addr < QUEUE_END

\* C17: both cursors are multiples of the chunk size and lie in
\* [QUEUE_BEGIN, QUEUE_END); empty() holds exactly when send = recv (no frame
\* between the cursors), full() exactly when next(send) = recv (every chunk
\* but one between them), and the two never hold together.
C17_CursorInvariant ==
    /\ CursorInWindow(SEND_MAILBOX)
    /\ CursorInWindow(RECV_MAILBOX)
    /\ queue_empty <=> SEND_MAILBOX = RECV_MAILBOX
    /\ queue_empty <=> QueuePending(RECV_MAILBOX, SEND_MAILBOX) = 0
    /\ queue_full <=> queue_next(SEND_MAILBOX) = RECV_MAILBOX
    /\ queue_full <=> QueuePending(RECV_MAILBOX, SEND_MAILBOX) = QueueChunks - 1
    /\ ~(queue_empty /\ queue_full)

\* the queue is full with the send cursor wrapped behind the recv cursor
C17_Witness ==
    /\ queue_ret.op = "enqueue"
    /\ queue_ret.outcome = "returned"
    /\ queue_full
    /\ SEND_MAILBOX < RECV_MAILBOX

\* C18: the chunk-sized span that enqueue or dequeue gives to its closure,
\* [cursor, cursor + QUEUE_CHUNK), lies inside [QUEUE_BEGIN, QUEUE_END).
C18_ChunkInsideWindow ==
    (queue_ret.op \in {"enqueue", "dequeue"} /\ queue_ret.fres # "notrun") =>
        /\ QUEUE_BEGIN <= queue_ret.addr
        /\ queue_ret.addr + QUEUE_CHUNK <= QUEUE_END

\* the decoder is reading the chunk the encoder is writing
ReadingWhatIsWritten ==
    /\ prod.pc = "write"
    /\ cons.pc = "read"
    /\ prod.addr = cons.addr

\* C19: with one core enqueueing when full() is false and another dequeueing
\* when empty() is false, interleaved at the level of the cursor reads and
\* writes, the decoder is never given a chunk that the encoder is writing,
\* and the frames it accepts are the frames enqueued, whole, in order, none
\* lost, duplicated or overwritten.
C19_FramesInOrder ==
    /\ ~ReadingWhatIsWritten
    /\ prod.pc # "panicked"
    /\ cons.pc # "panicked"
    /\ Len(conc_delivered) < prod.k
    /\ \A n \in 1 .. Len(conc_delivered) : conc_delivered[n] = Frame(n)

\* every frame has gone through the ring, more frames than it has chunks,
\* while the producer was writing ahead of the consumer
C19_Witness ==
    /\ Len(conc_delivered) = MaxFrames
    /\ MaxFrames > QueueChunks
    /\ cons.pc = "idle"

(***************************************************************************)
(* Claims about the mailbox.                                               *)
(***************************************************************************)
\* the side that made the last mailbox call has sent a value before
CallerHasSent == mailbox_ret.side \in Sides /\ LAST[mailbox_ret.side] # 0

\* C5 as stated: receive returns 0 if and only if the mailbox word equals the
\* value the calling side itself most recently sent; otherwise it returns
\* the word.
C5_ReceiveZeroIffOwnValue ==
    mailbox_ret.op = "receive" =>
        /\ mailbox_ret.value = 0 <=> MAILBOX = LAST[mailbox_ret.side]
        /\ MAILBOX # LAST[mailbox_ret.side] => mailbox_ret.value = MAILBOX

\* C5, amended: receive returns 0 if and only if the mailbox word equals the
\* value the calling side itself most recently sent or the word is 0 (the
\* peer has acknowledged); otherwise it returns the word, which is nonzero.
C5_ReceiveZeroIffOwnValueOrCleared ==
    mailbox_ret.op = "receive" =>
        /\ mailbox_ret.value = 0 <=>
               (MAILBOX = LAST[mailbox_ret.side] \/ MAILBOX = 0)
        /\ MAILBOX # LAST[mailbox_ret.side] => mailbox_ret.value = MAILBOX

\* a side received while the word still held the value it had sent itself
C5_Witness ==
    /\ mailbox_ret.op = "receive"
    /\ CallerHasSent
    /\ MAILBOX = LAST[mailbox_ret.side]
    /\ mailbox_ret.value = 0

\* C6: after send(v), acknowledged() returns false while the word still holds
\* v, and true once the peer has cleared the word or written a different
\* value; acknowledged() modifies neither the word nor LAST.
C6_AcknowledgedAfterSend ==
    /\ []((mailbox_ret.op = "acknowledged" /\ CallerHasSent) =>
            (mailbox_ret.flag = FALSE <=> MAILBOX = LAST[mailbox_ret.side]))
    /\ [][mailbox_ret'.op = "acknowledged" => UNCHANGED <<MAILBOX, LAST>>]_vars

\* acknowledged() returned true because the peer had written another value
C6_Witness ==
    /\ mailbox_ret.op = "acknowledged"
    /\ CallerHasSent
    /\ MAILBOX # 0
    /\ MAILBOX # LAST[mailbox_ret.side]
    /\ mailbox_ret.flag = TRUE

(***************************************************************************)
(* Claims about the session protocol.                                      *)
(***************************************************************************)
\* the first read_from on the stream has returned
FirstReadReturned == session_ret.kind # "none" /\ session_ret.start = 0

\* read_from stopped the synchronisation right after the fourth marker byte,
\* read the request's own tag and returned the request
ReadTheRequest ==
    /\ session_ret.sync_end = Len(session_input.garbage) + 4
    /\ session_ret.kind = "Ok"
    /\ session_ret.tag = RequestTag(session_input.request.variant)
    /\ session_ret.request = session_input.request
    /\ reader_pos = Len(stream)

\* C10 as stated: for any garbage before the four sync bytes, read_from stops
\* immediately after the fourth sync byte, reads the request's own tag and
\* returns that request.
C10_SyncThenRequest == FirstReadReturned => ReadTheRequest

RECURSIVE HasSyncRun(_)
HasSyncRun(g) ==
    /\ Len(g) >= 4
    /\ \/ \A k \in 1 .. 4 : g[k] = SYNC_BYTE
       \/ HasSyncRun(Tail(g))

\* garbage that neither ends with a sync byte nor holds four of them in a row
GarbageApartFromMarker(g) ==
    /\ g # <<>> => g[Len(g)] # SYNC_BYTE
    /\ ~HasSyncRun(g)

\* C10, amended: for garbage that does not end with a sync byte and does not
\* hold four consecutive sync bytes, read_from stops immediately after the
\* fourth sync byte of the marker, reads the request's own tag and returns
\* that request.
C10_SyncThenRequestApartGarbage ==
    (FirstReadReturned /\ GarbageApartFromMarker(session_input.garbage)) => ReadTheRequest

\* a request was read behind garbage that holds sync bytes and a tag byte
C10_Witness ==
    /\ FirstReadReturned
    /\ GarbageApartFromMarker(session_input.garbage)
    /\ \E k \in 1 .. Len(session_input.garbage) : session_input.garbage[k] = SYNC_BYTE
    /\ session_ret.kind = "Ok"
    /\ session_ret.request.variant = "UploadSubkernel"

\* the tag bytes the protocol gives to requests, and the variant of each
StatedVariant(tag) ==
    CASE tag = 3 -> "SystemInfo"
      [] tag = 5 -> "LoadKernel"
      [] tag = 6 -> "RunKernel"
      [] tag = 7 -> "RpcReply"
      [] tag = 8 -> "RpcException"
      [] tag = 9 -> "UploadSubkernel"
      [] OTHER -> "none"

\* the last read_from found a marker: the four bytes before sync_end are sync bytes
ReadBehindMarker ==
    /\ session_ret.sync_end >= session_ret.start + 4
    /\ \A k \in 0 .. 3 : stream[session_ret.sync_end - k] = SYNC_BYTE

\* the garbage that is left after the reader's position
GarbageLeft == SubSeq(session_input.garbage, reader_pos + 1, Len(session_input.garbage))

\* the last read_from returned UnknownPacket from inside the garbage, and what
\* follows is garbage apart from the marker, the marker and the request
FramedRequestFollows ==
    /\ session_ret.kind = "UnknownPacket"
    /\ reader_pos <= Len(session_input.garbage)
    /\ GarbageApartFromMarker(GarbageLeft)

WroteKernelException ==
    /\ exn_ret.op = "write_to"
    /\ exn_ret.outcome = "returned"
    /\ exn_ret.reply.variant = "KernelException"

\* the exceptions one after another: id, message, file, line, column, function
ExceptionsLayout(es) == Flatten([i \in 1 .. Len(es) |-> write_exception(es[i])])

\* the stated layout of a KernelException reply: each array after its own count
KernelExceptionLayout(r) ==
    SyncMarker \o <<9>> \o
    U32Bytes(Len(r.exceptions)) \o ExceptionsLayout(r.exceptions) \o
    U32Bytes(Len(r.stack_pointers)) \o write_u32_entries(r.stack_pointers) \o
    U32Bytes(Len(r.backtrace)) \o write_u32_entries(r.backtrace) \o
    <<r.async_errors>>

\* C11: a KernelException reply is written as the sync marker, tag 9, the
\* count of exceptions and the exceptions, the count of stack-pointer entries
\* and the entries, the count of backtrace entries and the entries, and the
\* async-error count byte.
C11_KernelExceptionLayout ==
    WroteKernelException => written = KernelExceptionLayout(exn_ret.reply)

\* the stored bytes of a buffer that holds on-device text
StoredBytes(s) == SubSeq(s.buf, 1, Min(s.pos, STRING_BUFFER_LEN))

\* what is left of the capacity of a buffer
Remaining(s) == saturating_sub(STRING_BUFFER_LEN, s.pos)

\* C12: copy_str never panics; it appends the longest prefix of its input
\* that fits in the remaining capacity and drops the rest.
C12_CopyStrNeverPanics ==
    exn_ret.op = "copy_str" =>
        /\ exn_ret.outcome = "returned"
        /\ LET n == Min(Len(exn_ret.arg), Remaining(exn_ret.before)) IN
           /\ sb.pos = exn_ret.before.pos + n
           /\ StoredBytes(sb) = StoredBytes(exn_ret.before) \o SubSeq(exn_ret.arg, 1, n)

\* C13: from_host(key) reports is_host, and write_exception_stringbuffer on
\* it writes the 32-bit value 0xFFFFFFFF and then the 32-bit value key.
C13_HostKeyRoundTrip ==
    /\ exn_ret.op = "from_host" => is_host(sb)
    /\ (exn_ret.op = "write_exception_stringbuffer" /\ sb_history.key # <<>>) =>
            written = write_u32(U32_MAX) \o write_u32(sb_history.key)

\* a buffer made from a key whose four bytes differ was written
C13_Witness ==
    /\ exn_ret.op = "write_exception_stringbuffer"
    /\ sb_history.key = U32Bytes(16909060)
    /\ is_host(sb)
    /\ Len(written) = 8

\* C14: a buffer built with new, from_str, copy_str and clear only is never
\* reported host-resident, and write_exception_stringbuffer writes it as the
\* length-prefixed string of its stored bytes.
C14_DeviceTextNeverHost ==
    sb_history.device =>
        /\ ~is_host(sb)
        /\ exn_ret.op = "write_exception_stringbuffer" =>
               written = write_string(StoredBytes(sb))

(***************************************************************************)
(* Mailbox delivery between the two cores.                                 *)
(***************************************************************************)
\* the word holds a value the peer of `side` sent, not cleared or overwritten since
PeerMessagePending(side) ==
    /\ mailbox_sender \in Sides \ {side}
    /\ MAILBOX # 0

\* C21: when the peer's send(v) wrote the word, v nonzero, and nothing has
\* cleared or overwritten it since, this side's receive() returns v, never 0,
\* whatever this side sent earlier.
C21_PeerMessageDelivered ==
    (mailbox_ret.op = "receive" /\ PeerMessagePending(mailbox_ret.side)) =>
        /\ mailbox_ret.value = MAILBOX
        /\ mailbox_ret.value # 0

(***************************************************************************)
(* Cache-flush ordering in the ring queue, checked under SpecConc.         *)
(***************************************************************************)
\* the consumer is in dequeue past the flush: the chunk is exposed to the
\* decoder, or recv is being advanced
PastFlush == cons.pc \in {"slice", "read", "next_read", "next_write"}

\* the frame the decoder is reading, counted in the order of publication
FrameUnderRead == Len(conc_delivered) + 1

\* C23: in every dequeue call the flush comes before the chunk is exposed
\* to the decoder and before recv is advanced; no step of the producer
\* flushes; so each chunk is read after a flush that came after the
\* producer's advance of send for it, and the decoder reads the bytes the
\* producer wrote, never a stale cached copy.
C23_FlushBeforeRead ==
    /\ [](PastFlush => cons_dcache.flushed_at >= 0)
    /\ [][cons_dcache' # cons_dcache => prod' = prod]_vars
    /\ [](cons.pc = "read" =>
            /\ cons_dcache.flushed_at >= FrameUnderRead
            /\ \A i \in 1 .. Len(cons.buf) : cons.buf[i] = queue_mem[cons.addr][i])
    /\ [][RECV_MAILBOX' # RECV_MAILBOX =>
            cons_dcache.flushed_at >= Len(conc_delivered)]_vars

\* the decoder is reading a chunk the ring has used before, for a frame
\* whose bytes differ from the earlier frame's
C23_Witness ==
    /\ cons.pc = "read"
    /\ Len(cons.buf) > 0
    /\ FrameUnderRead > Cardinality(QueueCursors)
    /\ cons.buf = SubSeq(Frame(FrameUnderRead), 1, Len(cons.buf))

=============================================================================
